---- MODULE Spec2Model ----
(***************************************************************************)
(* State-machine model of the blueprint node-graph editor:                 *)
(*   - BlueprintCanvas (src/components/ChatInterface.tsx, lines 345-640):  *)
(*     the interaction state (selectedNode, dragOffset, drawingConnection) *)
(*     and the pointer handlers that move nodes and create connections;    *)
(*   - ChatInterface.handleSend (same file, lines 59-125): the injection   *)
(*     of node descriptors parsed from the generator's reply;              *)
(*   - App (src/unnamed/part_000): owner of the node and connection        *)
(*     collections shared by both components.                              *)
(* Every handler is one action: React runs a handler to completion and     *)
(* applies all of its state updates in one render.                         *)
(***************************************************************************)
EXTENDS Integers, Sequences, FiniteSets, TLC

\* ------------------------------------------------------------------------
\* Bounds of the model
\* ------------------------------------------------------------------------
\* largest number of nodes injected in one run
MaxNodes == 2
\* largest number of descriptors in one injected batch
MaxBatch == 2
\* largest reading of the millisecond clock (Date.now())
MaxClock == 1
\* largest number of stored connections
MaxConnections == 2
\* node origins are kept within -MaxCoord .. MaxCoord
MaxCoord == 350

\* ------------------------------------------------------------------------
\* Layout constants (ChatInterface.tsx lines 358-364)
\* ------------------------------------------------------------------------
NODE_WIDTH == 160
HEADER_HEIGHT == 28
BODY_PADDING == 8
PIN_ROW_HEIGHT == 20
PIN_GAP == 4
PIN_OFFSET_Y == 10
PIN_OFFSET_X == 12

\* canvasRef.current.getBoundingClientRect(): the canvas is the first flex
\* child of the full-screen root, so its client rectangle starts at (0, 0)
RectLeft == 0
RectTop == 0

\* JavaScript null
Null == <<>>

VARIABLES
    nodes,              \* App: BlueprintNode[]
    connections,        \* App: Connection[]
    selectedNode,       \* BlueprintCanvas: id of the node being dragged, or Null
    dragOffset,         \* BlueprintCanvas: [x, y] captured at pointer-down, or Null
    drawingConnection,  \* BlueprintCanvas: the pending connection draw, or Null
    lastEvent,          \* the handler binding that ran last and the branch it took
    injected            \* number of nodes injected so far

vars == <<nodes, connections, selectedNode, dragOffset, drawingConnection, lastEvent, injected>>

\* ------------------------------------------------------------------------
\* Inputs
\* ------------------------------------------------------------------------
\* pointer positions (clientX, clientY) delivered with mouse events
Points == { <<0, 0>>, <<300, 200>> }

\* readings of Date.now(): wall-clock milliseconds, which may repeat
Clock == 0..MaxClock

\* node descriptors produced by the generator; type "" is an absent type
Descriptors ==
    { [json |-> "object", name |-> "Event Jump", type |-> "event",
       inputs |-> <<>>, outputs |-> <<"Out">>],
      [json |-> "object", name |-> "Branch", type |-> "",
       inputs |-> <<"In">>, outputs |-> <<"Out">>] }

\* a JSON null in the place of a descriptor
JsonNull == [json |-> "null", name |-> "", type |-> "", inputs |-> <<>>, outputs |-> <<>>]

\* a JSON number in the place of a descriptor: every property read of a
\* number yields undefined, and `undefined || d` is the default d
JsonNumber == [json |-> "number", name |-> "undefined", type |-> "", inputs |-> <<>>, outputs |-> <<>>]

\* the longest pin list of a descriptor
MaxPins == 1

\* well-formed batches, and batches in which a JSON null follows the descriptors
Batches == UNION { [1..k -> Descriptors] : k \in 0..MaxBatch }
NullBatches == { Append(b, JsonNull) : b \in { c \in Batches : Len(c) < MaxBatch } }

\* batches in which a JSON number follows the descriptors
NumberBatches == { Append(b, JsonNumber) : b \in { c \in Batches : Len(c) < MaxBatch } }

\* the generator's reply as handleSend sees it
Payloads ==
    { [kind |-> "nomatch", nodes |-> <<>>],    \* no ```json block
      [kind |-> "badjson", nodes |-> <<>>],    \* JSON.parse throws
      [kind |-> "notlist", nodes |-> <<>>] }   \* parsed.nodes is not an array
    \cup { [kind |-> "list", nodes |-> b] : b \in Batches \cup NullBatches \cup NumberBatches }

\* the binding that dispatched the last event and the branch its handler took
Event(binding, detail) == [binding |-> binding, detail |-> detail]

\* ------------------------------------------------------------------------
\* Helpers
\* ------------------------------------------------------------------------
\* Array.prototype.find on the id: the first index holding the id, 0 if none
FindIndex(ns, id) ==
    IF \E i \in DOMAIN ns : ns[i].id = id
    THEN CHOOSE i \in DOMAIN ns : ns[i].id = id /\ \A j \in DOMAIN ns : ns[j].id = id => i <= j
    ELSE 0

NodeIds(ns) == { ns[i].id : i \in DOMAIN ns }

\* Array.prototype.indexOf: the zero-based index of the first occurrence, -1 if none
indexOf(list, name) ==
    IF \E j \in DOMAIN list : list[j] = name
    THEN (CHOOSE j \in DOMAIN list : list[j] = name /\ \A h \in DOMAIN list : list[h] = name => j <= h) - 1
    ELSE -1

Pins(node, isInput) == IF isInput THEN node.inputs ELSE node.outputs

\* a layout that puts the output rows below the input rows
getNodePinPos_outputsBelowInputs(node, pinIndex, isInput) ==
    [x |-> IF isInput THEN node.x + PIN_OFFSET_X
                      ELSE node.x + NODE_WIDTH - PIN_OFFSET_X,
     y |-> node.y + HEADER_HEIGHT + BODY_PADDING
             + ((IF isInput THEN pinIndex ELSE pinIndex + Len(node.inputs))
                  * (PIN_ROW_HEIGHT + PIN_GAP)) + PIN_OFFSET_Y]

\* a layout that forgets the gap between the pin rows
getNodePinPos_noGap(node, pinIndex, isInput) ==
    [x |-> IF isInput THEN node.x + PIN_OFFSET_X
                      ELSE node.x + NODE_WIDTH - PIN_OFFSET_X,
     y |-> node.y + HEADER_HEIGHT + BODY_PADDING
             + (pinIndex * PIN_ROW_HEIGHT) + PIN_OFFSET_Y]

\* getNodePinPos: pinIndex is zero-based
getNodePinPos(node, pinIndex, isInput) ==
    [x |-> IF isInput THEN node.x + PIN_OFFSET_X
                      ELSE node.x + NODE_WIDTH - PIN_OFFSET_X,
     y |-> node.y + HEADER_HEIGHT + BODY_PADDING
             + (pinIndex * (PIN_ROW_HEIGHT + PIN_GAP)) + PIN_OFFSET_Y]

Init ==
    /\ nodes = <<>>
    /\ connections = <<>>
    /\ selectedNode = Null
    /\ dragOffset = Null
    /\ drawingConnection = Null
    /\ lastEvent = Event("mount", "done")
    /\ injected = 0

\* ------------------------------------------------------------------------
\* Node injection: ChatInterface.handleSend, after the reply has arrived
\* ------------------------------------------------------------------------
\* a map that leaves the index out of the id
newNodes_idWithoutIndex(batch, t) ==
    [idx \in 1..Len(batch) |->
        [id |-> <<"node", t, 0>>,
         name |-> batch[idx].name,
         type |-> IF batch[idx].type = "" THEN "function" ELSE batch[idx].type,
         inputs |-> batch[idx].inputs,
         outputs |-> batch[idx].outputs,
         x |-> 100 + ((idx - 1) * 250),
         y |-> 100 + (((idx - 1) % 2) * 100)]]

\* parsed.nodes.map(...): idx is zero-based in the source, one-based here
newNodes(batch, t) ==
    [idx \in 1..Len(batch) |->
        [id |-> <<"node", t, idx - 1>>,
         name |-> batch[idx].name,
         type |-> IF batch[idx].type = "" THEN "function" ELSE batch[idx].type,
         inputs |-> batch[idx].inputs,
         outputs |-> batch[idx].outputs,
         x |-> 100 + ((idx - 1) * 250),
         y |-> 100 + (((idx - 1) % 2) * 100)]]

\* reading n.name of a JSON null throws a TypeError inside the map callback
MapThrows(batch) == \E idx \in DOMAIN batch : batch[idx].json = "null"

\* an injection that stores the new nodes in place of the collection
handleSend_replaces(p, t) ==
    /\ injected + Len(p.nodes) <= MaxNodes
    /\ IF p.kind = "list" /\ ~MapThrows(p.nodes)
       THEN /\ nodes' = newNodes(p.nodes, t)
            /\ injected' = injected + Len(p.nodes)
            /\ lastEvent' = Event("handleSend", "applied")
       ELSE /\ nodes' = nodes
            /\ injected' = injected
            /\ lastEvent' = Event("handleSend", "discarded")
    /\ UNCHANGED <<connections, selectedNode, dragOffset, drawingConnection>>

\* t is the reading of Date.now() while the batch is mapped
handleSend(p, t) ==
    /\ injected + Len(p.nodes) <= MaxNodes
    /\ IF p.kind = "list" /\ ~MapThrows(p.nodes)
       THEN /\ nodes' = nodes \o newNodes(p.nodes, t)
            /\ injected' = injected + Len(p.nodes)
            /\ lastEvent' = Event("handleSend", "applied")
       ELSE /\ nodes' = nodes
            /\ injected' = injected
            /\ lastEvent' = Event("handleSend", "discarded")
    /\ UNCHANGED <<connections, selectedNode, dragOffset, drawingConnection>>

\* ------------------------------------------------------------------------
\* BlueprintCanvas handlers
\* ------------------------------------------------------------------------
\* handleNodeMouseDown(e, id) with e.clientX, e.clientY = pt
NodeMouseDownEffect(id, pt) ==
    LET f == FindIndex(nodes, id) IN
    IF f # 0
    THEN /\ selectedNode' = id
         /\ dragOffset' = [x |-> pt[1] - nodes[f].x, y |-> pt[2] - nodes[f].y]
    ELSE UNCHANGED <<selectedNode, dragOffset>>

\* pointer-down on the body of the i-th rendered node
handleNodeMouseDown(i, pt) ==
    /\ i \in DOMAIN nodes
    /\ NodeMouseDownEffect(nodes[i].id, pt)
    /\ lastEvent' = Event("node.onMouseDown", "body")
    /\ UNCHANGED <<nodes, connections, drawingConnection, injected>>

\* pointer-down on the delete button of the i-th rendered node: the button
\* binds onClick only, so the mousedown bubbles to the node's onMouseDown
DeleteControlMouseDown(i, pt) ==
    /\ i \in DOMAIN nodes
    /\ NodeMouseDownEffect(nodes[i].id, pt)
    /\ lastEvent' = Event("node.onMouseDown", "deleteButton")
    /\ UNCHANGED <<nodes, connections, drawingConnection, injected>>

PinBinding(isInput, ev) == (IF isInput THEN "inputPin." ELSE "outputPin.") \o ev

\* pointer-down on the k-th pin glyph (one-based) of the i-th rendered node;
\* stopPropagation keeps the event from the node's onMouseDown
handlePinMouseDown(i, isInput, k) ==
    /\ i \in DOMAIN nodes
    /\ k \in DOMAIN Pins(nodes[i], isInput)
    /\ LET nodeId == nodes[i].id
           f == FindIndex(nodes, nodeId)
           pos == getNodePinPos(nodes[f], k - 1, isInput)
       IN  drawingConnection' =
               [startNodeId |-> nodeId,
                startPin |-> Pins(nodes[i], isInput)[k],
                isInput |-> isInput,
                startX |-> pos.x, startY |-> pos.y,
                currX |-> pos.x, currY |-> pos.y]
    /\ lastEvent' = Event(PinBinding(isInput, "onMouseDown"), "draw")
    /\ UNCHANGED <<nodes, connections, selectedNode, dragOffset, injected>>

\* a handler without rule 1
SameNode_unchecked(dc, nodeId) == FALSE

\* rule 1: the release pin's node is the origin node
SameNode(dc, nodeId) == dc.startNodeId = nodeId

\* a handler without rule 2
SameDirection_unchecked(dc, isInput) == FALSE

\* rule 2: the release pin has the direction of the origin pin
SameDirection(dc, isInput) == dc.isInput = isInput

\* a connection stored as dragged: from the origin pin to the release pin
newConnection_asDragged(dc, nodeId, pinName, isInput, t) ==
    [id |-> <<"conn", t>>,
     fromNodeId |-> dc.startNodeId,
     fromPin |-> dc.startPin,
     toNodeId |-> nodeId,
     toPin |-> pinName]

\* the connection built from the pending draw and the release pin
newConnection(dc, nodeId, pinName, isInput, t) ==
    [id |-> <<"conn", t>>,
     fromNodeId |-> IF isInput THEN dc.startNodeId ELSE nodeId,
     fromPin |-> IF isInput THEN dc.startPin ELSE pinName,
     toNodeId |-> IF isInput THEN nodeId ELSE dc.startNodeId,
     toPin |-> IF isInput THEN pinName ELSE dc.startPin]

\* a duplicate test that compares whole connections, id included
exists_comparesId(conns, nc) == \E j \in DOMAIN conns : conns[j] = nc

\* connections.some(...): the normalized tuple is already stored
exists(conns, nc) ==
    \E j \in DOMAIN conns :
        /\ conns[j].fromNodeId = nc.fromNodeId
        /\ conns[j].fromPin = nc.fromPin
        /\ conns[j].toNodeId = nc.toNodeId
        /\ conns[j].toPin = nc.toPin

\* pointer-up on the k-th pin glyph of the i-th rendered node, with Date.now()
\* reading t; stopPropagation keeps the event from the canvas's onMouseUp
handlePinMouseUp(i, isInput, k, t) ==
    /\ i \in DOMAIN nodes
    /\ k \in DOMAIN Pins(nodes[i], isInput)
    /\ LET nodeId == nodes[i].id
           pinName == Pins(nodes[i], isInput)[k]
           dc == drawingConnection
           b == PinBinding(isInput, "onMouseUp")
       IN
       IF dc = Null
       THEN /\ lastEvent' = Event(b, "noDraw")
            /\ UNCHANGED <<connections, drawingConnection>>
       ELSE IF SameNode(dc, nodeId)
       THEN /\ lastEvent' = Event(b, "sameNode")
            /\ drawingConnection' = Null
            /\ UNCHANGED connections
       ELSE IF SameDirection(dc, isInput)
       THEN /\ lastEvent' = Event(b, "sameDirection")
            /\ drawingConnection' = Null
            /\ UNCHANGED connections
       ELSE LET nc == newConnection(dc, nodeId, pinName, isInput, t) IN
            IF exists(connections, nc)
            THEN /\ lastEvent' = Event(b, "duplicate")
                 /\ drawingConnection' = Null
                 /\ UNCHANGED connections
            ELSE /\ Len(connections) < MaxConnections
                 /\ lastEvent' = Event(b, "commit")
                 /\ drawingConnection' = Null
                 /\ connections' = Append(connections, nc)
    /\ UNCHANGED <<nodes, selectedNode, dragOffset, injected>>

InRange(v) == -MaxCoord <= v /\ v <= MaxCoord

\* a move that keeps the dragged node on the non-negative quadrant
MovedNodes_clamped(ns, sel, off, pt) ==
    [j \in DOMAIN ns |->
        IF ns[j].id = sel
        THEN [ns[j] EXCEPT !.x = IF pt[1] - off.x < 0 THEN 0 ELSE pt[1] - off.x,
                           !.y = IF pt[2] - off.y < 0 THEN 0 ELSE pt[2] - off.y]
        ELSE ns[j]]

\* a move that adds the pointer's distance from the offset to the origin
MovedNodes_relative(ns, sel, off, pt) ==
    [j \in DOMAIN ns |->
        IF ns[j].id = sel
        THEN [ns[j] EXCEPT !.x = ns[j].x + (pt[1] - off.x), !.y = ns[j].y + (pt[2] - off.y)]
        ELSE ns[j]]

\* a move that does not look at the id
MovedNodes_movesAll(ns, sel, off, pt) ==
    [j \in DOMAIN ns |-> [ns[j] EXCEPT !.x = pt[1] - off.x, !.y = pt[2] - off.y]]

\* the node collection after the dragged node follows the pointer to pt
MovedNodes(ns, sel, off, pt) ==
    [j \in DOMAIN ns |->
        IF ns[j].id = sel
        THEN [ns[j] EXCEPT !.x = pt[1] - off.x, !.y = pt[2] - off.y]
        ELSE ns[j]]

\* pointer-move anywhere over the canvas with e.clientX, e.clientY = pt
handleMouseMove(pt) ==
    IF selectedNode # Null /\ dragOffset # Null
    THEN /\ InRange(pt[1] - dragOffset.x) /\ InRange(pt[2] - dragOffset.y)
         /\ nodes' = MovedNodes(nodes, selectedNode, dragOffset, pt)
         /\ lastEvent' = Event("canvas.onMouseMove", "moveNode")
         /\ UNCHANGED <<connections, selectedNode, dragOffset, drawingConnection, injected>>
    ELSE IF drawingConnection # Null
    THEN /\ drawingConnection' =
               [drawingConnection EXCEPT !.currX = pt[1] - RectLeft,
                                         !.currY = pt[2] - RectTop]
         /\ lastEvent' = Event("canvas.onMouseMove", "dragLine")
         /\ UNCHANGED <<nodes, connections, selectedNode, dragOffset, injected>>
    ELSE /\ lastEvent' = Event("canvas.onMouseMove", "none")
         /\ UNCHANGED <<nodes, connections, selectedNode, dragOffset, drawingConnection, injected>>

\* a canvas pointer-up that also withdraws the connection stored last
handleMouseUp_dropsLastConnection ==
    /\ selectedNode' = Null
    /\ dragOffset' = Null
    /\ drawingConnection' = Null
    /\ connections' = SubSeq(connections, 1, Len(connections) - 1)
    /\ lastEvent' = Event("canvas.onMouseUp", "done")
    /\ UNCHANGED <<nodes, injected>>

\* a canvas pointer-up that forgets the pending draw
handleMouseUp_keepsDraw ==
    /\ selectedNode' = Null
    /\ dragOffset' = Null
    /\ lastEvent' = Event("canvas.onMouseUp", "done")
    /\ UNCHANGED <<nodes, connections, drawingConnection, injected>>

\* pointer-up that reaches the canvas: over the empty surface, a node body
\* or the delete button
handleMouseUp ==
    /\ selectedNode' = Null
    /\ dragOffset' = Null
    /\ drawingConnection' = Null
    /\ lastEvent' = Event("canvas.onMouseUp", "done")
    /\ UNCHANGED <<nodes, connections, injected>>

\* a cascade that looks at the source end only
Touches_fromOnly(c, id) == c.fromNodeId = id

\* the connection touches the node id
Touches(c, id) == c.fromNodeId = id \/ c.toNodeId = id

KeepNode(n, id) == n.id # id

\* click on the delete button of the i-th rendered node
deleteNode(i) ==
    /\ i \in DOMAIN nodes
    /\ LET id == nodes[i].id IN
        /\ nodes' = SelectSeq(nodes, LAMBDA n : KeepNode(n, id))
        /\ connections' = SelectSeq(connections, LAMBDA c : ~Touches(c, id))
    /\ lastEvent' = Event("deleteButton.onClick", "done")
    /\ UNCHANGED <<selectedNode, dragOffset, drawingConnection, injected>>

\* The browser decides which handler runs next, and the handlers themselves
\* guard nothing else than what is written above: a pointer-up reaches the
\* canvas only when it happens over the canvas (the chat pane of App lies
\* beside it) and does not land on a pin (stopPropagation), the delete
\* button's click can come from the keyboard, and a reply of the generator
\* arrives whenever its request completes.  So every handler may follow
\* every other one.
Next ==
    \/ \E p \in Payloads, t \in Clock : handleSend(p, t)
    \/ \E i \in 1..MaxNodes, pt \in Points : handleNodeMouseDown(i, pt)
    \/ \E i \in 1..MaxNodes, pt \in Points : DeleteControlMouseDown(i, pt)
    \/ \E i \in 1..MaxNodes, isInput \in BOOLEAN, k \in 1..MaxPins : handlePinMouseDown(i, isInput, k)
    \/ \E i \in 1..MaxNodes, isInput \in BOOLEAN, k \in 1..MaxPins, t \in Clock : handlePinMouseUp(i, isInput, k, t)
    \/ \E pt \in Points : handleMouseMove(pt)
    \/ handleMouseUp
    \/ \E i \in 1..MaxNodes : deleteNode(i)

Spec == Init /\ [][Next]_vars

\* ------------------------------------------------------------------------
\* Vocabulary of the properties
\* ------------------------------------------------------------------------
Range(q) == { q[j] : j \in DOMAIN q }

PinUpBindings == { "inputPin.onMouseUp", "outputPin.onMouseUp" }

\* every binding a pointer-up can reach
PointerUpBindings == PinUpBindings \cup { "canvas.onMouseUp" }

OutputPinNames == UNION { Range(d.outputs) : d \in Descriptors }
InputPinNames == UNION { Range(d.inputs) : d \in Descriptors }

\* the pin under the pointer exists
PinAt(i, isInput, k) == i \in DOMAIN nodes /\ k \in DOMAIN Pins(nodes[i], isInput)

\* the step is a pointer-up on the k-th pin of the i-th node
PinUpStep(i, isInput, k) == \E t \in Clock : handlePinMouseUp(i, isInput, k, t)

\* the two ends of the drag that a pointer-up on the pin would complete
DragEnds(i, isInput, k) ==
    { [node |-> drawingConnection.startNodeId, pin |-> drawingConnection.startPin,
       isInput |-> drawingConnection.isInput],
      [node |-> nodes[i].id, pin |-> Pins(nodes[i], isInput)[k], isInput |-> isInput] }

\* a drag between an output pin and an input pin of different nodes
ValidDrag(i, isInput, k) ==
    /\ drawingConnection # Null
    /\ PinAt(i, isInput, k)
    /\ drawingConnection.startNodeId # nodes[i].id
    /\ drawingConnection.isInput # isInput

OutputEnd(i, isInput, k) == CHOOSE e \in DragEnds(i, isInput, k) : ~e.isInput
InputEnd(i, isInput, k) == CHOOSE e \in DragEnds(i, isInput, k) : e.isInput

\* the connection runs from the output end to the input end of the drag
RunsOutputToInput(c, i, isInput, k) ==
    /\ c.fromNodeId = OutputEnd(i, isInput, k).node
    /\ c.fromPin = OutputEnd(i, isInput, k).pin
    /\ c.toNodeId = InputEnd(i, isInput, k).node
    /\ c.toPin = InputEnd(i, isInput, k).pin

SameTuple(c, d) ==
    /\ c.fromNodeId = d.fromNodeId /\ c.fromPin = d.fromPin
    /\ c.toNodeId = d.toNodeId /\ c.toPin = d.toPin

\* ------------------------------------------------------------------------
\* C1: a completed drag between an output pin O of node A and an input pin I
\* of another node B appends exactly one connection, and that connection has
\* fromNodeId = A, fromPin = O, toNodeId = B, toPin = I whichever end the
\* drag started from.
\* ------------------------------------------------------------------------
C1_NormalizedDirection ==
    [][ lastEvent'.binding \in PinUpBindings =>
        \A i \in 1..MaxNodes, isInput \in BOOLEAN, k \in 1..MaxPins :
          ( /\ ValidDrag(i, isInput, k)
            /\ PinUpStep(i, isInput, k)
            /\ connections' # connections )
          => /\ Len(connections') = Len(connections) + 1
             /\ SubSeq(connections', 1, Len(connections)) = connections
             /\ RunsOutputToInput(connections'[Len(connections')], i, isInput, k)
      ]_vars

\* a drag that started on an input pin and was released on an output pin has
\* been committed, and the stored connection runs from the output pin of one
\* node to the input pin of another
C1_Witness ==
    /\ lastEvent = Event("outputPin.onMouseUp", "commit")
    /\ connections # <<>>
    /\ LET c == connections[Len(connections)] IN
       \E i, j \in DOMAIN nodes :
           /\ i # j /\ nodes[i].id # nodes[j].id
           /\ c.fromNodeId = nodes[i].id /\ c.fromPin \in Range(nodes[i].outputs)
           /\ c.toNodeId = nodes[j].id /\ c.toPin \in Range(nodes[j].inputs)

\* ------------------------------------------------------------------------
\* C2: no stored connection joins a node to itself, and a pointer-up on a
\* pin of the node the pending draw started on adds no connection and
\* clears the pending draw.
\* ------------------------------------------------------------------------
NoSelfLoop == \A c \in Range(connections) : c.fromNodeId # c.toNodeId

C2_NoSelfLoop ==
    /\ []NoSelfLoop
    /\ [][ lastEvent'.binding \in PinUpBindings =>
           \A i \in 1..MaxNodes, isInput \in BOOLEAN, k \in 1..MaxPins :
             ( /\ drawingConnection # Null
               /\ PinAt(i, isInput, k)
               /\ drawingConnection.startNodeId = nodes[i].id
               /\ PinUpStep(i, isInput, k) )
             => (connections' = connections /\ drawingConnection' = Null)
         ]_vars

\* a draw was released on a pin of its own origin node and was discarded
C2_Witness ==
    /\ lastEvent.binding \in PinUpBindings
    /\ lastEvent.detail = "sameNode"
    /\ drawingConnection = Null
    /\ Len(nodes) = 2

\* ------------------------------------------------------------------------
\* C3: a pointer-up on a pin of the same direction as the origin pin of
\* the pending draw adds no connection and clears the pending draw; every
\* stored connection has an output pin as fromPin and an input pin as toPin.
\* (The input and output pin names of the descriptors are disjoint.)
\* ------------------------------------------------------------------------
OutputToInput ==
    \A c \in Range(connections) :
        c.fromPin \in OutputPinNames /\ c.toPin \in InputPinNames

C3_NoSameDirection ==
    /\ []OutputToInput
    /\ [][ lastEvent'.binding \in PinUpBindings =>
           \A i \in 1..MaxNodes, isInput \in BOOLEAN, k \in 1..MaxPins :
             ( /\ drawingConnection # Null
               /\ PinAt(i, isInput, k)
               /\ drawingConnection.isInput = isInput
               /\ PinUpStep(i, isInput, k) )
             => (connections' = connections /\ drawingConnection' = Null)
         ]_vars

\* a draw from an input pin was released on an input pin of another node
\* and was discarded
C3_Witness ==
    /\ lastEvent = Event("inputPin.onMouseUp", "sameDirection")
    /\ drawingConnection = Null
    /\ InputPinNames \cap OutputPinNames = {}

\* ------------------------------------------------------------------------
\* C4: no two stored connections have the same (fromNodeId, fromPin,
\* toNodeId, toPin); completing a drag whose normalized tuple is already
\* stored leaves the connection collection unchanged.
\* ------------------------------------------------------------------------
NoDuplicateTuple ==
    \A a, b \in DOMAIN connections :
        SameTuple(connections[a], connections[b]) => a = b

C4_NoDuplicates ==
    /\ []NoDuplicateTuple
    /\ [][ lastEvent'.binding \in PinUpBindings =>
           \A i \in 1..MaxNodes, isInput \in BOOLEAN, k \in 1..MaxPins :
             ( /\ ValidDrag(i, isInput, k)
               /\ \E c \in Range(connections) : RunsOutputToInput(c, i, isInput, k)
               /\ PinUpStep(i, isInput, k) )
             => (connections' = connections /\ drawingConnection' = Null)
         ]_vars

\* the drag of the one stored connection was repeated in the opposite drag
\* order, and still exactly one connection is stored
C4_Witness ==
    /\ lastEvent = Event("outputPin.onMouseUp", "duplicate")
    /\ Len(connections) = 1
    /\ NodeIds(nodes) = { connections[1].fromNodeId, connections[1].toNodeId }

C6_NoDanglingConnection ==
    \A c \in Range(connections) :
        c.fromNodeId \in NodeIds(nodes) /\ c.toNodeId \in NodeIds(nodes)

\* ------------------------------------------------------------------------
\* C7: when the origin node of the pending draw has been deleted, a
\* pointer-up on a pin creates no connection and cancels the draw.
\* ------------------------------------------------------------------------
C7_DeletedOriginCancels ==
    [][ ( /\ drawingConnection # Null
          /\ drawingConnection.startNodeId \notin NodeIds(nodes)
          /\ lastEvent'.binding \in PinUpBindings )
        => (connections' = connections /\ drawingConnection' = Null)
      ]_vars

\* ------------------------------------------------------------------------
\* C8: a node is never selected for dragging while a connection draw is
\* pending.
\* ------------------------------------------------------------------------
C8_MutuallyExclusive ==
    ~( (selectedNode # Null \/ dragOffset # Null) /\ drawingConnection # Null )

\* ------------------------------------------------------------------------
\* C9: from the dragging-node state, a pointer-up anywhere (empty surface,
\* node body or pin glyph) leaves no node selected and no captured offset.
\* ------------------------------------------------------------------------
C9_PointerUpEndsNodeDrag ==
    [][ ( /\ selectedNode # Null
          /\ dragOffset # Null
          /\ lastEvent'.binding \in PointerUpBindings )
        => (selectedNode' = Null /\ dragOffset' = Null)
      ]_vars

\* ------------------------------------------------------------------------
\* C10: after any pointer-up, on a pin or elsewhere on the surface, and
\* whatever finalization decided, no connection draw is pending.
\* ------------------------------------------------------------------------
C10_NoDrawAfterPointerUp ==
    lastEvent.binding \in PointerUpBindings => drawingConnection = Null

\* a pending draw was committed by a pointer-up on an input pin and is gone
C10_Witness ==
    /\ lastEvent = Event("inputPin.onMouseUp", "commit")
    /\ connections # <<>>
    /\ drawingConnection = Null

\* ------------------------------------------------------------------------
\* C11: a pointer-up that ends a pending draw without committing it leaves
\* the node collection and the connection collection exactly as they were:
\* a pointer-up that reaches the canvas, and a pointer-up on a pin that the
\* self-loop rule, the same-direction rule or the duplicate rule rejects.
\* ------------------------------------------------------------------------
\* the pointer-up on the pin breaks one of the three finalization rules
Rejected(i, isInput, k) ==
    \/ drawingConnection.startNodeId = nodes[i].id
    \/ drawingConnection.isInput = isInput
    \/ \E c \in Range(connections) : RunsOutputToInput(c, i, isInput, k)

C11_RejectedDrawHasNoEffect ==
    [][ (lastEvent'.binding \in PointerUpBindings /\ drawingConnection # Null) =>
        /\ lastEvent'.binding = "canvas.onMouseUp"
             => (nodes' = nodes /\ connections' = connections)
        /\ \A i \in 1..MaxNodes, isInput \in BOOLEAN, k \in 1..MaxPins :
             ( /\ PinAt(i, isInput, k)
               /\ Rejected(i, isInput, k)
               /\ PinUpStep(i, isInput, k) )
             => (nodes' = nodes /\ connections' = connections)
      ]_vars

\* with a connection stored, a draw between two output pins was discarded
C11_Witness ==
    /\ lastEvent = Event("outputPin.onMouseUp", "sameDirection")
    /\ Len(connections) = 1
    /\ Len(nodes) = 2
    /\ drawingConnection = Null

\* ------------------------------------------------------------------------
\* C12: injecting a batch of k well-formed descriptors makes the node
\* collection k longer, keeps the existing nodes in front of the k new ones,
\* and gives the new nodes pairwise distinct ids and pairwise distinct
\* default positions.
\* ------------------------------------------------------------------------
\* every element of the batch is a descriptor object
WellFormed(batch) == \A idx \in DOMAIN batch : batch[idx].json = "object"

C12_BatchAddsExactlyK ==
    [][ lastEvent'.binding = "handleSend" =>
        \A p \in Payloads, t \in Clock :
          ( /\ p.kind = "list"
            /\ WellFormed(p.nodes)
            /\ handleSend(p, t) )
          => LET old == Len(nodes)
                 fresh == (old + 1)..Len(nodes')
             IN /\ Len(nodes') = old + Len(p.nodes)
                /\ SubSeq(nodes', 1, old) = nodes
                /\ \A a, b \in fresh :
                     a # b => /\ nodes'[a].id # nodes'[b].id
                              /\ <<nodes'[a].x, nodes'[a].y>> # <<nodes'[b].x, nodes'[b].y>>
      ]_vars

\* a batch of two descriptors has just been injected: the two nodes carry the
\* same clock reading, the indexes 0 and 1, and the two staggered positions
C12_Witness ==
    /\ lastEvent = Event("handleSend", "applied")
    /\ Len(nodes) = 2
    /\ nodes[1].id[2] = nodes[2].id[2]
    /\ nodes[1].id[3] = 0 /\ nodes[2].id[3] = 1
    /\ <<nodes[1].x, nodes[1].y>> = <<100, 100>>
    /\ <<nodes[2].x, nodes[2].y>> = <<350, 200>>

\* ------------------------------------------------------------------------
\* C13: in every reachable state, after any number of injected batches and
\* deletions, two batches handled at the same clock reading included, no two
\* nodes of the node collection have the same id.
\* ------------------------------------------------------------------------
C13_UniqueNodeIds ==
    \A a, b \in DOMAIN nodes : nodes[a].id = nodes[b].id => a = b

\* ------------------------------------------------------------------------
\* C14: handling a payload leaves the node collection unchanged or extends
\* it by one node for every element of the batch, and a malformed payload
\* (no parseable JSON, nodes not a list, or an element that is no descriptor
\* object) changes neither the node collection nor the connection collection.
\* ------------------------------------------------------------------------
Malformed(p) == p.kind # "list" \/ ~WellFormed(p.nodes)

C14_MalformedAppliesNothing ==
    [][ lastEvent'.binding = "handleSend" =>
        \A p \in Payloads, t \in Clock :
          handleSend(p, t) =>
            /\ nodes' = nodes \/ nodes' = nodes \o SubSeq(nodes', Len(nodes) + 1, Len(nodes) + Len(p.nodes))
            /\ Malformed(p) => (nodes' = nodes /\ connections' = connections)
      ]_vars

\* ------------------------------------------------------------------------
\* Pin geometry: the canvas with one node drawn from a set of nodes that
\* differ in name, kind, pin lists and origin.  The node is dragged, and
\* draws are started on its pins, which evaluates getNodePinPos.
\* ------------------------------------------------------------------------
\* longest pin list of a probe node
MaxProbePins == 2

\* origins of the probe nodes before any drag
ProbeCoords == { -40, 100 }

\* name and kind of the probe nodes
ProbeKinds == { <<"Event Jump", "event">>, <<"Branch", "function">> }

PinList(prefix, n) == [j \in 1..n |-> prefix \o ToString(j)]

ProbeNodes ==
    { [id |-> <<"node", 0, 0>>, name |-> nk[1], type |-> nk[2],
       inputs |-> PinList("In", a), outputs |-> PinList("Out", b),
       x |-> x, y |-> y] :
      nk \in ProbeKinds, a \in 0..MaxProbePins, b \in 0..MaxProbePins,
      x \in ProbeCoords, y \in ProbeCoords }

PinInit ==
    /\ nodes \in { <<n>> : n \in ProbeNodes }
    /\ connections = <<>>
    /\ selectedNode = Null
    /\ dragOffset = Null
    /\ drawingConnection = Null
    /\ lastEvent = Event("mount", "done")
    /\ injected = 1

PinNext ==
    \/ \E pt \in Points : handleNodeMouseDown(1, pt)
    \/ \E isInput \in BOOLEAN, k \in 1..MaxProbePins : handlePinMouseDown(1, isInput, k)
    \/ \E pt \in Points : handleMouseMove(pt)
    \/ handleMouseUp

PinSpec == PinInit /\ [][PinNext]_vars

\* ------------------------------------------------------------------------
\* C15: the pin position is a function of the node's origin, the pin index
\* and the direction only: the position computed for a node N, shifted by
\* the offset from N's origin to the origin of any node M, is the position
\* computed for M, whatever the names, kinds and pin lists of N and M and
\* whatever the state of the surface.
\* ------------------------------------------------------------------------
C15_PinPositionFollowsOrigin ==
    [][ \A isInput \in BOOLEAN, k \in 1..MaxProbePins :
          handlePinMouseDown(1, isInput, k) =>
            \A M \in ProbeNodes :
              getNodePinPos(M, k - 1, isInput) =
                [x |-> drawingConnection'.startX + (M.x - nodes[1].x),
                 y |-> drawingConnection'.startY + (M.y - nodes[1].y)]
      ]_vars

\* a draw was started on the second output pin of a node that has been
\* dragged away from every initial origin while a draw was pending or not
C15_Witness ==
    /\ lastEvent = Event("outputPin.onMouseDown", "draw")
    /\ nodes[1].x \notin ProbeCoords
    /\ Len(nodes[1].outputs) = 2
    /\ drawingConnection # Null
    /\ drawingConnection.startPin = nodes[1].outputs[2]

\* ------------------------------------------------------------------------
\* C16: for a node with origin (x, y) and the zero-based pin index i, the
\* pin position is x + 12 for an input pin and x + 160 - 12 for an output
\* pin, and y + 28 + 8 + i * (20 + 4) + 20 / 2 for both; the input pin and
\* the output pin of one index share their y and lie 160 - 2 * 12 apart.
\* ------------------------------------------------------------------------
C16_PinPositionFormula ==
    [][ \A isInput \in BOOLEAN, k \in 1..MaxProbePins :
          handlePinMouseDown(1, isInput, k) =>
            LET N == nodes[1]
                i == k - 1
                inPos == getNodePinPos(N, i, TRUE)
                outPos == getNodePinPos(N, i, FALSE)
            IN /\ drawingConnection'.startX = IF isInput THEN N.x + 12 ELSE N.x + 160 - 12
               /\ drawingConnection'.startY = N.y + 28 + 8 + (i * (20 + 4)) + (20 \div 2)
               /\ inPos.y = outPos.y
               /\ outPos.x - inPos.x = 160 - (2 * 12)
               /\ drawingConnection'.startX = (IF isInput THEN inPos.x ELSE outPos.x)
      ]_vars

\* a draw is anchored on the second input pin of a node at its initial
\* origin (100, -40): the anchor is (112, 30)
C16_Witness ==
    /\ lastEvent = Event("inputPin.onMouseDown", "draw")
    /\ <<nodes[1].x, nodes[1].y>> = <<100, -40>>
    /\ Len(nodes[1].inputs) = 2
    /\ drawingConnection # Null
    /\ drawingConnection.startPin = nodes[1].inputs[2]
    /\ <<drawingConnection.startX, drawingConnection.startY>> = <<112, 30>>

\* ------------------------------------------------------------------------
\* C17: the dragging-node state is entered only by a pointer-down on the
\* body of a node: a step that selects a node while none was selected is
\* never a pointer-down on a pin or on the delete control.
\* ------------------------------------------------------------------------
C17_OnlyBodyStartsDrag ==
    [][ (selectedNode = Null /\ selectedNode' # Null)
        => lastEvent' = Event("node.onMouseDown", "body")
      ]_vars

\* ------------------------------------------------------------------------
\* C18: the offset captured by a pointer-down on a node body is the pointer
\* position minus the origin of the node the handler finds for the id, so a
\* pointer-move to the pointer-down point leaves that node where it is; and
\* in dragging-node every pointer-move to a position p stores p minus the
\* captured offset as the origin of the selected node, negative values
\* included, and keeps the selection and the offset.
\* ------------------------------------------------------------------------
Origin(n) == <<n.x, n.y>>

Dragging == selectedNode # Null /\ dragOffset # Null

C18_DragFollowsPointer ==
    [][ lastEvent'.binding \in { "node.onMouseDown", "canvas.onMouseMove" } =>
        /\ \A i \in 1..MaxNodes, pt \in Points :
             (i \in DOMAIN nodes /\ handleNodeMouseDown(i, pt))
             => LET f == FindIndex(nodes, nodes[i].id) IN
                /\ <<pt[1] - dragOffset'.x, pt[2] - dragOffset'.y>> = Origin(nodes[f])
                /\ MovedNodes(nodes', selectedNode', dragOffset', pt)[f] = nodes[f]
        /\ \A pt \in Points :
             (Dragging /\ handleMouseMove(pt))
             => /\ selectedNode' = selectedNode
                /\ dragOffset' = dragOffset
                /\ \A j \in DOMAIN nodes :
                     nodes[j].id = selectedNode
                     => Origin(nodes'[j]) = <<pt[1] - dragOffset.x, pt[2] - dragOffset.y>>
      ]_vars

\* a node pressed at (300, 200) has followed the pointer to (0, 0): its
\* origin is negative in both coordinates
C18_Witness ==
    /\ lastEvent = Event("canvas.onMouseMove", "moveNode")
    /\ Dragging
    /\ \E j \in DOMAIN nodes :
         /\ nodes[j].id = selectedNode
         /\ nodes[j].x < 0 /\ nodes[j].y < 0
         /\ Origin(nodes[j]) = <<0 - dragOffset.x, 0 - dragOffset.y>>

\* ------------------------------------------------------------------------
\* C19: a pointer-move changes nothing but the origin of the selected node:
\* the connection collection, every node with another id, and the id, name,
\* kind and pin lists of every node are unchanged, and the node collection
\* keeps its length and order.
\* ------------------------------------------------------------------------
C19_MoveChangesOnlyOrigin ==
    [][ lastEvent'.binding = "canvas.onMouseMove" =>
        /\ connections' = connections
        /\ Len(nodes') = Len(nodes)
        /\ \A j \in DOMAIN nodes :
             /\ nodes[j].id # selectedNode => nodes'[j] = nodes[j]
             /\ nodes'[j] = [nodes[j] EXCEPT !.x = nodes'[j].x, !.y = nodes'[j].y]
      ]_vars

\* of two connected nodes the first has been dragged away and the second
\* still has the default origin of its batch index
C19_Witness ==
    /\ lastEvent = Event("canvas.onMouseMove", "moveNode")
    /\ Len(nodes) = 2
    /\ nodes[1].id # nodes[2].id
    /\ selectedNode = nodes[1].id
    /\ Origin(nodes[1]) # <<100, 100>>
    /\ Origin(nodes[2]) = <<350, 200>>
    /\ Len(connections) = 1

\* ------------------------------------------------------------------------
\* C20: while a draw is pending and the node found for its origin id has
\* the origin pin, the anchor of the draw is the pin position of that pin
\* computed from the node's current origin.
\* ------------------------------------------------------------------------
\* the node found for the origin id of the pending draw has the origin pin
OriginPinPresent ==
    /\ drawingConnection # Null
    /\ drawingConnection.startNodeId \in NodeIds(nodes)
    /\ LET N == nodes[FindIndex(nodes, drawingConnection.startNodeId)] IN
       indexOf(Pins(N, drawingConnection.isInput), drawingConnection.startPin) # -1

C20_AnchorOnOriginPin ==
    OriginPinPresent
    => LET dc == drawingConnection
           N == nodes[FindIndex(nodes, dc.startNodeId)]
           pos == getNodePinPos(N, indexOf(Pins(N, dc.isInput), dc.startPin), dc.isInput)
       IN <<dc.startX, dc.startY>> = <<pos.x, pos.y>>

\* ------------------------------------------------------------------------
\* C21: in every reachable state no two stored connections have the same
\* id, two connections committed at the same clock reading included.
\* ------------------------------------------------------------------------
C21_UniqueConnectionIds ==
    \A a, b \in DOMAIN connections : connections[a].id = connections[b].id => a = b

\* ------------------------------------------------------------------------
\* C22: a pointer-move is idempotent: in dragging-node and in
\* drawing-connection alike, delivering the pointer-move that has just been
\* handled once more, with the same pointer position, changes nothing.
\* ------------------------------------------------------------------------
\* the node collection and the pending draw that handleMouseMove leaves when
\* it starts from ns, sel, off, dc and the pointer is at pt
AfterMouseMove(ns, sel, off, dc, pt) ==
    IF sel # Null /\ off # Null
    THEN <<MovedNodes(ns, sel, off, pt), dc>>
    ELSE IF dc # Null
    THEN <<ns, [dc EXCEPT !.currX = pt[1] - RectLeft, !.currY = pt[2] - RectTop]>>
    ELSE <<ns, dc>>

C22_MoveIdempotent ==
    [][ lastEvent'.binding = "canvas.onMouseMove" =>
        \A pt \in Points :
          handleMouseMove(pt) =>
            /\ <<nodes', drawingConnection'>> =
                 AfterMouseMove(nodes, selectedNode, dragOffset, drawingConnection, pt)
            /\ <<selectedNode', dragOffset', connections'>> = <<selectedNode, dragOffset, connections>>
            /\ AfterMouseMove(nodes', selectedNode', dragOffset', drawingConnection', pt) =
                 <<nodes', drawingConnection'>>
      ]_vars

\* the free end of a pending draw has followed the pointer to (300, 200),
\* away from the anchor, while no node is selected
C22_Witness ==
    /\ lastEvent = Event("canvas.onMouseMove", "dragLine")
    /\ selectedNode = Null
    /\ drawingConnection # Null
    /\ <<drawingConnection.currX, drawingConnection.currY>> = <<300, 200>>
    /\ <<drawingConnection.startX, drawingConnection.startY>> # <<300, 200>>

\* ------------------------------------------------------------------------
\* Render pass of the connection layer (ChatInterface.tsx lines 544-566)
\* ------------------------------------------------------------------------
\* a render pass that does not test the pin indexes
RenderConnection_noPinTest(ns, conn) ==
    LET f == FindIndex(ns, conn.fromNodeId)
        g == FindIndex(ns, conn.toNodeId)
    IN  IF f = 0 \/ g = 0 THEN Null
        ELSE [start |-> getNodePinPos(ns[f], indexOf(ns[f].outputs, conn.fromPin), FALSE),
              end |-> getNodePinPos(ns[g], indexOf(ns[g].inputs, conn.toPin), TRUE)]

\* connections.map(conn => ...): Null where the callback returns null, the
\* two ends handed to getPathD otherwise
RenderConnection(ns, conn) ==
    LET f == FindIndex(ns, conn.fromNodeId)
        g == FindIndex(ns, conn.toNodeId)
    IN  IF f = 0 \/ g = 0 THEN Null
        ELSE LET fromIdx == indexOf(ns[f].outputs, conn.fromPin)
                 toIdx == indexOf(ns[g].inputs, conn.toPin)
             IN  IF fromIdx = -1 \/ toIdx = -1 THEN Null
                 ELSE [start |-> getNodePinPos(ns[f], fromIdx, FALSE),
                       end |-> getNodePinPos(ns[g], toIdx, TRUE)]

\* The canvas with one stored connection between the two ids of a batch and
\* one or two nodes that carry these ids.  An endpoint id without a node is
\* left by a draw that was completed after its origin node had been deleted;
\* a node without the named pin, or with the pin name twice, is a node
\* injected with an id that was in use (same clock reading and index).
RenderDescriptors ==
    { [json |-> "object", name |-> "Event Jump", type |-> "event",
       inputs |-> <<>>, outputs |-> <<"Exec", "Out">>],
      [json |-> "object", name |-> "Branch", type |-> "",
       inputs |-> <<"Cond", "In">>, outputs |-> <<"Out", "Out">>],
      JsonNumber }

RenderNodes == { newNodes(<<d, e>>, 0)[idx] : d \in RenderDescriptors, e \in RenderDescriptors, idx \in 1..2 }

RenderConnections ==
    { [id |-> <<"conn", 0>>, fromNodeId |-> <<"node", 0, a>>, fromPin |-> "Out",
       toNodeId |-> <<"node", 0, 1 - a>>, toPin |-> "In"] : a \in 0..1 }

RenderInit ==
    /\ nodes \in UNION { [1..n -> RenderNodes] : n \in 1..2 }
    /\ connections \in { <<c>> : c \in RenderConnections }
    /\ selectedNode = Null
    /\ dragOffset = Null
    /\ drawingConnection = Null
    /\ lastEvent = Event("mount", "done")
    /\ injected = Len(nodes)

RenderNext ==
    \/ \E i \in 1..MaxNodes, pt \in Points : handleNodeMouseDown(i, pt)
    \/ \E pt \in Points : handleMouseMove(pt)
    \/ handleMouseUp
    \/ \E i \in 1..MaxNodes : deleteNode(i)

RenderSpec == RenderInit /\ [][RenderNext]_vars

\* ------------------------------------------------------------------------
\* C23: the render pass draws a stored connection exactly when a node is
\* found for each endpoint id, fromPin occurs in the output pins of the
\* source node and toPin in the input pins of the destination node, and it
\* skips the connection otherwise; a drawn connection starts at the pin
\* position of the first output pin named fromPin and ends at the pin
\* position of the first input pin named toPin.
\* ------------------------------------------------------------------------
\* the first node with the id
NodeOf(id) == nodes[CHOOSE i \in DOMAIN nodes : nodes[i].id = id /\ \A j \in 1..(i - 1) : nodes[j].id # id]

\* the zero-based position of the first occurrence of the name
FirstPosition(list, name) ==
    (CHOOSE j \in DOMAIN list : list[j] = name /\ \A h \in 1..(j - 1) : list[h] # name) - 1

Resolvable(c) ==
    /\ c.fromNodeId \in NodeIds(nodes)
    /\ c.toNodeId \in NodeIds(nodes)
    /\ c.fromPin \in Range(NodeOf(c.fromNodeId).outputs)
    /\ c.toPin \in Range(NodeOf(c.toNodeId).inputs)

C23_RenderDrawsResolvable ==
    \A c \in Range(connections) :
      /\ RenderConnection(nodes, c) # Null <=> Resolvable(c)
      /\ Resolvable(c) =>
           LET F == NodeOf(c.fromNodeId)
               T == NodeOf(c.toNodeId)
           IN  RenderConnection(nodes, c) =
                 [start |-> getNodePinPos(F, FirstPosition(F.outputs, c.fromPin), FALSE),
                  end |-> getNodePinPos(T, FirstPosition(T.inputs, c.toPin), TRUE)]

\* the connection is drawn from the first of two output pins named Out of a
\* node that has been dragged to the second input pin of the other node
C23_Witness ==
    /\ lastEvent = Event("canvas.onMouseMove", "moveNode")
    /\ Len(nodes) = 2 /\ Len(connections) = 1
    /\ nodes[1].outputs = <<"Out", "Out">>
    /\ nodes[1].id = selectedNode
    /\ Origin(nodes[1]) = <<-200, -100>>
    /\ RenderConnection(nodes, connections[1]) =
         [start |-> [x |-> -52, y |-> -54], end |-> [x |-> 362, y |-> 270]]

\* ------------------------------------------------------------------------
\* C24: as long as every node is where its injection put it, at
\* (100 + 250 * i, 100 + 100 * (i mod 2)) for the i-th node of its batch,
\* no two nodes of the collection have the same position.  (Stated for
\* collections without repeated ids.)
\* ------------------------------------------------------------------------
\* the default position of the node with zero-based batch index i
DefaultPosition(i) == <<100 + (250 * i), 100 + (100 * (i % 2))>>

NoNodeMoved == \A j \in DOMAIN nodes : Origin(nodes[j]) = DefaultPosition(nodes[j].id[3])

C24_DefaultPositionsDistinct ==
    (NoNodeMoved /\ C13_UniqueNodeIds)
    => \A a, b \in DOMAIN nodes : a # b => Origin(nodes[a]) # Origin(nodes[b])

\* ------------------------------------------------------------------------
\* C25: an injection that is applied while a node is selected for dragging
\* or a draw is pending keeps every node of the collection, where the drag
\* has put it, in front of one new node for every descriptor of the batch,
\* and leaves the connection collection, the selected node, the captured
\* offset and the pending draw as they were.
\* ------------------------------------------------------------------------
C25_InjectionDuringDrag ==
    [][ ( /\ lastEvent' = Event("handleSend", "applied")
          /\ (selectedNode # Null \/ drawingConnection # Null) )
        => /\ Len(nodes') >= Len(nodes)
           /\ SubSeq(nodes', 1, Len(nodes)) = nodes
           /\ \A p \in Payloads, t \in Clock :
                handleSend(p, t) =>
                  /\ Len(nodes') = Len(nodes) + Len(p.nodes)
                  /\ SubSeq(nodes', Len(nodes) + 1, Len(nodes')) = newNodes(p.nodes, t)
           /\ connections' = connections
           /\ <<selectedNode', dragOffset', drawingConnection'>> =
                <<selectedNode, dragOffset, drawingConnection>>
      ]_vars

\* a node was injected while the first node, dragged away from its default
\* position, was still selected
C25_Witness ==
    /\ lastEvent = Event("handleSend", "applied")
    /\ Dragging
    /\ Len(nodes) = 2
    /\ nodes[1].id = selectedNode
    /\ nodes[2].id # selectedNode
    /\ Origin(nodes[1]) # <<100, 100>>
    /\ Origin(nodes[2]) = <<100, 100>>

\* ------------------------------------------------------------------------
\* C26: the connection collection changes in two kinds of step only: a
\* pointer-up on a pin while a draw is pending, which appends exactly one
\* connection behind the stored ones, and the deletion of a node, which
\* removes exactly the connections that have the node's id as an endpoint;
\* every other connection stays in place with all of its fields.
\* ------------------------------------------------------------------------
C26_ConnectionLifecycle ==
    [][ connections' # connections =>
        \/ /\ lastEvent'.binding \in PinUpBindings
           /\ drawingConnection # Null
           /\ Len(connections') = Len(connections) + 1
           /\ SubSeq(connections', 1, Len(connections)) = connections
        \/ /\ lastEvent'.binding = "deleteButton.onClick"
           /\ \E i \in DOMAIN nodes :
                /\ nodes[i].id \notin NodeIds(nodes')
                /\ connections' =
                     SelectSeq(connections,
                               LAMBDA c : c.fromNodeId # nodes[i].id /\ c.toNodeId # nodes[i].id)
      ]_vars

\* a second connection has been committed behind the first, which is still
\* stored between the two nodes it was drawn between
C26_Witness ==
    /\ lastEvent.binding \in PinUpBindings
    /\ lastEvent.detail = "commit"
    /\ Len(connections) = 2
    /\ Len(nodes) = 2
    /\ connections[1].fromNodeId = connections[2].toNodeId
    /\ connections[1].toNodeId = connections[2].fromNodeId
    /\ { connections[1].fromNodeId, connections[1].toNodeId } = NodeIds(nodes)
====
